---- MODULE Spec2Model ----
(***************************************************************************)
(* Model of src/main.rs: the /coffee and /beer handlers over one shared    *)
(* Structsy connection, the AppError responder, and the x-request-id and   *)
(* trace layers that create_router wraps around every route.               *)
(*                                                                         *)
(* Strings the program takes apart (the path identifier) are sequences of  *)
(* tokens, so that Ref::to_string and str::parse are computed and a round  *)
(* trip is something that can fail.                                        *)
(***************************************************************************)
EXTENDS Integers, Sequences, FiniteSets, TLC

\* ---------------------------------------------------------------- bounds
\* Number of record slots the store can hand out (raw identifiers 1..MaxIds).
MaxIds == 2
\* Number of requests that can be in flight together in Spec.
NumReqs == 2

\* ------------------------------------------------------------- constants
INTERNAL_SERVER_ERROR == 500

Reqs == 1..NumReqs
RawIds == 1..MaxIds

\* The two persistent structs; T::get_name() is the struct's name.
Kinds == {"Coffee", "Beer"}

\* struct Coffee / struct Beer: { brand: String, size: u32, time: String }.
Coffee == [brand : {"Acme", "Bolt"}, size : {12, 16}, time : {"t0", "t1"}]
Beer == Coffee

\* The records requests carry: two that differ in every field.
Bodies ==
  { [brand |-> "Acme", size |-> 12, time |-> "t0"],
    [brand |-> "Bolt", size |-> 16, time |-> "t1"] }

None == "None"
NoRec == [kind |-> None]
NoTx == [state |-> "none"]

\* --------------------------------------------------------------- strings
\* Text of a raw identifier (PersyId's Display): one token per identifier.
IdText == <<"a", "b", "c", "d">>

PersyIdToString(raw) == IdText[raw]

\* PersyId::from_str: Some(raw) for the text of an identifier, else an error.
PersyIdParse(s) ==
  IF Len(s) = 1 /\ \E i \in 1..Len(IdText) : IdText[i] = s[1]
  THEN [ok |-> TRUE, raw |-> CHOOSE i \in 1..Len(IdText) : IdText[i] = s[1]]
  ELSE [ok |-> FALSE, raw |-> 0]

\* Position of the first "@" of s at or after i, or Len(s)+1.
RECURSIVE FindAt(_, _)
FindAt(s, i) ==
  IF i > Len(s) THEN Len(s) + 1
  ELSE IF s[i] = "@" THEN i
  ELSE FindAt(s, i + 1)

\* s.split('@'): the first two pieces (the second is absent without an '@').
SplitFirst(s) == SubSeq(s, 1, FindAt(s, 1) - 1)
HasSecond(s) == FindAt(s, 1) <= Len(s)
SplitSecond(s) == SubSeq(s, FindAt(s, 1) + 1, FindAt(s, FindAt(s, 1) + 1) - 1)

\* A Ref<T>: the struct name and the raw identifier.
Ref(k, raw) == [type_name |-> k, raw_id |-> raw]

\* impl Display for Ref<T>: "{type_name}@{raw_id}".
RefToString(ref) == <<ref.type_name, "@", PersyIdToString(ref.raw_id)>>

\* impl FromStr for Ref<T> (Err = StructsyError), for T = kind k.
RefFromStr(k, s) ==
  IF ~HasSecond(s) THEN [ok |-> FALSE, err |-> "InvalidId"]
  ELSE IF SplitFirst(s) # <<k>> THEN [ok |-> FALSE, err |-> "InvalidId"]
  ELSE IF ~PersyIdParse(SplitSecond(s)).ok THEN [ok |-> FALSE, err |-> "InvalidId"]
  ELSE [ok |-> TRUE, ref |-> Ref(k, PersyIdParse(SplitSecond(s)).raw)]

\* Path segments clients send: every identifier the store can issue, under
\* either struct name, and strings that are not identifiers.
Malformed == { <<"not-an-id">>, <<"Beer", "@", "zz">> }
PathIds == { RefToString(Ref(k, raw)) : k \in Kinds, raw \in RawIds } \cup Malformed

\* ------------------------------------------------------- request bodies
\* A body on the wire: its content type, whether it is JSON text at all, and
\* the object it spells. size is any integer the text can spell; a negative
\* one is no u32.

WireBodies ==
  { [ctype |-> "application/json", syntax |-> TRUE, value |-> b] : b \in Bodies }
  \cup
  { [ctype |-> "text/plain", syntax |-> TRUE,
     value |-> [brand |-> "Acme", size |-> 12, time |-> "t0"]],
    [ctype |-> "application/json", syntax |-> FALSE,
     value |-> [brand |-> "Acme", size |-> 12, time |-> "t0"]],
    [ctype |-> "application/json", syntax |-> TRUE,
     value |-> [brand |-> "Acme", size |-> -1, time |-> "t0"]] }

\* axum::Json<T>::from_request: content type, then syntax, then the data.
JsonDecode(w) ==
  IF w.ctype # "application/json"
  THEN [ok |-> FALSE, rejection |-> "MissingJsonContentType"]
  ELSE IF ~w.syntax THEN [ok |-> FALSE, rejection |-> "JsonSyntaxError"]
  ELSE IF w.value.size < 0
  THEN [ok |-> FALSE, rejection |-> "JsonDataError"]
  ELSE [ok |-> TRUE, value |-> w.value]

JsonRejections == {"MissingJsonContentType", "JsonSyntaxError", "JsonDataError"}

\* JsonRejection::status and JsonRejection::body_text.
RejectionStatus(r) ==
  CASE r = "MissingJsonContentType" -> 415
    [] r = "JsonSyntaxError" -> 400
    [] r = "JsonDataError" -> 422

RejectionBodyText(r) ==
  CASE r = "MissingJsonContentType" ->
         "Expected request with Content-Type: application/json"
    [] r = "JsonSyntaxError" -> "Failed to parse the request body as JSON"
    [] r = "JsonDataError" ->
         "Failed to deserialize the JSON body into the target type"

\* ----------------------------------------------------------- AppError
StructsyErrors == {"InvalidId", "StructNotDefined", "RecordNotFound", "PersyError"}
IoCauses == {"BrokenPipe", "OutOfMemory", "PermissionDenied"}

\* enum AppError.
AppError ==
  [variant : {"JsonRejection"}, cause : JsonRejections]
  \cup [variant : {"StructsyError"}, cause : StructsyErrors]
  \cup [variant : {"IOError"}, cause : IoCauses]

\* impl From<JsonRejection>, From<StructsyError>, From<std::io::Error>.
FromJsonRejection(r) == [variant |-> "JsonRejection", cause |-> r]
FromStructsyError(e) == [variant |-> "StructsyError", cause |-> e]
FromIoError(e) == [variant |-> "IOError", cause |-> e]

NoErr == [variant |-> None]

\* Display of a StructsyError and of a std::io::Error.
ErrToString(e) ==
  CASE e = "InvalidId" -> "Invalid ID"
    [] e = "StructNotDefined" -> "Struct not defined"
    [] e = "RecordNotFound" -> "Record not found"
    [] e = "PersyError" -> "Persy error"
    [] e = "BrokenPipe" -> "broken pipe"
    [] e = "OutOfMemory" -> "out of memory"
    [] e = "PermissionDenied" -> "permission denied"

GenericMessage == "something went wrong.  Try agin later!"

\* The (status, message) pair of impl IntoResponse for AppError.
StatusAndMessage(e) ==
  CASE e.variant = "JsonRejection" ->
         [status |-> RejectionStatus(e.cause), message |-> RejectionBodyText(e.cause)]
    [] e.variant = "StructsyError" ->
         [status |-> INTERNAL_SERVER_ERROR, message |-> ErrToString(e.cause)]
    [] e.variant = "IOError" ->
         [status |-> INTERNAL_SERVER_ERROR, message |-> GenericMessage]

\* The tracing::error! line of each arm.
ErrorLogLine(e) ==
  CASE e.variant = "JsonRejection" ->
         <<"bad user input -> ", RejectionBodyText(e.cause)>>
    [] e.variant = "StructsyError" -> <<"DB error -> ", ErrToString(e.cause)>>
    [] e.variant = "IOError" -> <<"I/O error -> ", ErrToString(e.cause)>>

\* ------------------------------------------------------------- headers
\* An x-request-id HeaderValue: its bytes, and whether they are all visible
\* ASCII (HeaderValue::to_str succeeds only then).
NoHeader == [present |-> FALSE]
HeaderValue(t, a) == [present |-> TRUE, text |-> t, ascii |-> a]

\* What MakeRequestUuid can generate.
Uuids == {"uuid-1", "uuid-2"}

\* What a client can send as x-request-id: nothing, a token, a value equal to
\* one the server could generate, or opaque bytes.
ClientHeaders ==
  { NoHeader, HeaderValue("abc", TRUE), HeaderValue("uuid-1", TRUE),
    HeaderValue("caf-e9", FALSE) }

NoSpan == [open |-> FALSE, opened |-> FALSE, request_id |-> None]
NoResp == [status |-> 0, body |-> None, hdr |-> NoHeader]
NoJson == [ok |-> FALSE, rejection |-> None]
NoRef == [type_name |-> None, raw_id |-> 0]

\* ---------------------------------------------------------------- state
VARIABLES
  records,      \* the store's committed records: raw id -> NoRec or [kind, rec]
  definitions,  \* the struct names defined on the connection
  pc,           \* where each request is
  op,           \* the route's handler: "create", "list", "update", "delete"
  kind,         \* the route's prefix: "Coffee" for /coffee, "Beer" for /beer
  inbound,      \* the x-request-id the client sent
  reqHdr,       \* the request's x-request-id after SetRequestIdLayer
  span,         \* the request's tracing span
  path,         \* Path(id): the :id segment
  json,         \* the outcome of the AppJson extractor
  p_id,         \* the parsed Ref
  tx,           \* the handler's transaction
  err,          \* the AppError the handler returned
  resp,         \* the response
  elog,         \* the error-level events logged for the request
  lastDeleted,  \* history: the identifier whose delete committed last, as a string
  defineLog     \* history: per struct, whether define was called for it, and when

vars ==
  <<records, definitions, pc, op, kind, inbound, reqHdr, span, path, json,
    p_id, tx, err, resp, elog, lastDeleted, defineLog>>

store == <<records, definitions>>

\* ------------------------------------------------------------ the store
\* connection.define::<T>(): the struct is defined from now on.
Define(defs, k) == defs \cup {k}

\* check_defined::<T>().
IsDefined(defs, k) == k \in defs

\* Whether ref addresses a live record of its struct.
Exists(recs, ref) ==
  ref.raw_id \in RawIds /\ recs[ref.raw_id].kind = ref.type_name

\* connection.scan::<T>(): every live (Ref, record) of the struct.
Scan(recs, k) ==
  { [ref |-> Ref(k, raw), rec |-> recs[raw].rec] :
      raw \in { r \in RawIds : recs[r].kind = k } }

\* Identifiers an insert may be given: not live, and not reserved by an
\* insert of a transaction still open.
Reserved(txs) ==
  { txs[s].ref.raw_id : s \in { q \in Reqs : txs[q].state = "pending" /\ txs[q].op = "insert" } }
FreeIds(recs, txs) == { raw \in RawIds : recs[raw] = NoRec } \ Reserved(txs)

\* connection.begin().
BeginTx == [state |-> "open"]

\* tx.insert / tx.update / tx.delete: the operation waits for commit.
TxInsert(ref, rec) == [state |-> "pending", op |-> "insert", ref |-> ref, rec |-> rec]
TxUpdate(ref, rec) == [state |-> "pending", op |-> "update", ref |-> ref, rec |-> rec]
TxDelete(ref) == [state |-> "pending", op |-> "delete", ref |-> ref, rec |-> NoRec]

\* Whether commit's prepare accepts t: a record updated or deleted must
\* still be there; a transaction without an operation has nothing to check.
CanCommit(recs, t) ==
  \/ t.state = "open"
  \/ t.state = "pending" /\ (t.op = "insert" \/ Exists(recs, t.ref))

\* The records after t commits.
Committed(recs, t) ==
  CASE t.state = "open" -> recs
    [] t.op = "insert" ->
         [recs EXCEPT ![t.ref.raw_id] = [kind |-> t.ref.type_name, rec |-> t.rec]]
    [] t.op = "update" ->
         [recs EXCEPT ![t.ref.raw_id] = [kind |-> t.ref.type_name, rec |-> t.rec]]
    [] t.op = "delete" -> [recs EXCEPT ![t.ref.raw_id] = NoRec]

\* ---------------------------------------------------------------- steps
Ops == {"create", "list", "update", "delete"}

Init ==
  /\ records = [raw \in RawIds |-> NoRec]
  /\ definitions = {}
  /\ pc = [s \in Reqs |-> "idle"]
  /\ op = [s \in Reqs |-> None]
  /\ kind = [s \in Reqs |-> None]
  /\ inbound = [s \in Reqs |-> NoHeader]
  /\ reqHdr = [s \in Reqs |-> NoHeader]
  /\ span = [s \in Reqs |-> NoSpan]
  /\ path = [s \in Reqs |-> <<>>]
  /\ json = [s \in Reqs |-> NoJson]
  /\ p_id = [s \in Reqs |-> NoRef]
  /\ tx = [s \in Reqs |-> NoTx]
  /\ err = [s \in Reqs |-> NoErr]
  /\ resp = [s \in Reqs |-> NoResp]
  /\ elog = [s \in Reqs |-> <<>>]
  /\ lastDeleted = <<>>
  /\ defineLog = [k \in Kinds |-> "never"]

\* A request for one of the routes O under the prefixes K arrives, with or
\* without an x-request-id from H.
Receive(s, O, K, H) ==
  /\ pc[s] \in {"idle", "done"}
  /\ \E o \in O, k \in K, h \in H :
       /\ op' = [op EXCEPT ![s] = o]
       /\ kind' = [kind EXCEPT ![s] = k]
       /\ inbound' = [inbound EXCEPT ![s] = h]
  /\ pc' = [pc EXCEPT ![s] = "set_request_id"]
  /\ reqHdr' = [reqHdr EXCEPT ![s] = NoHeader]
  /\ span' = [span EXCEPT ![s] = NoSpan]
  /\ path' = [path EXCEPT ![s] = <<>>]
  /\ json' = [json EXCEPT ![s] = NoJson]
  /\ p_id' = [p_id EXCEPT ![s] = NoRef]
  /\ err' = [err EXCEPT ![s] = NoErr]
  /\ resp' = [resp EXCEPT ![s] = NoResp]
  /\ elog' = [elog EXCEPT ![s] = <<>>]
  /\ UNCHANGED <<records, definitions, tx, lastDeleted,
                 defineLog>>

\* Mutant: the layer gives every request a generated identifier, also one
\* that came with its own.
SetRequestIdAlways(s, U) ==
  /\ pc[s] = "set_request_id"
  /\ \E u \in U : reqHdr' = [reqHdr EXCEPT ![s] = HeaderValue(u, TRUE)]
  /\ pc' = [pc EXCEPT ![s] = "make_span"]
  /\ UNCHANGED <<records, definitions, op, kind, inbound, span, path, json,
                 p_id, tx, err, resp, elog, lastDeleted,
                 defineLog>>

\* SetRequestIdLayer: a request that has the header keeps it, any other is
\* given one made by MakeRequestUuid (one of U).
SetRequestId(s, U) ==
  /\ pc[s] = "set_request_id"
  /\ \E u \in U :
       reqHdr' = [reqHdr EXCEPT ![s] =
                    IF inbound[s].present THEN inbound[s] ELSE HeaderValue(u, TRUE)]
  /\ pc' = [pc EXCEPT ![s] = "make_span"]
  /\ UNCHANGED <<records, definitions, op, kind, inbound, span, path, json,
                 p_id, tx, err, resp, elog, lastDeleted,
                 defineLog>>

\* TraceLayer's make_span_with closure: request_id is recorded when the
\* header is there and to_str accepts it, and is left Empty otherwise.
MakeSpan(s) ==
  /\ pc[s] = "make_span"
  /\ span' = [span EXCEPT ![s] =
                [open |-> TRUE, opened |-> TRUE,
                 request_id |-> IF reqHdr[s].present /\ reqHdr[s].ascii
                                THEN reqHdr[s].text ELSE None]]
  /\ pc' = [pc EXCEPT ![s] = "extract"]
  /\ UNCHANGED <<records, definitions, op, kind, inbound, reqHdr, path, json,
                 p_id, tx, err, resp, elog, lastDeleted,
                 defineLog>>

\* The handler returns Err(e): its transaction, if any, is dropped
\* uncommitted.
Fail(s, e) ==
  /\ err' = [err EXCEPT ![s] = e]
  /\ tx' = [tx EXCEPT ![s] = NoTx]
  /\ pc' = [pc EXCEPT ![s] = "into_response"]

\* Mutant: the handlers take the body leniently, and a rejected body does
\* not stop them.
ExtractLenient(s, P, W) ==
  /\ pc[s] = "extract"
  /\ \/ /\ op[s] = "create"
        /\ \E w \in W : json' = [json EXCEPT ![s] = JsonDecode(w)]
        /\ pc' = [pc EXCEPT ![s] = "define"]
        /\ UNCHANGED path
     \/ /\ op[s] = "list"
        /\ pc' = [pc EXCEPT ![s] = "scan"]
        /\ UNCHANGED <<path, json>>
     \/ /\ op[s] = "update"
        /\ \E i \in P, w \in W :
             /\ path' = [path EXCEPT ![s] = i]
             /\ json' = [json EXCEPT ![s] = JsonDecode(w)]
        /\ pc' = [pc EXCEPT ![s] = "parse"]
     \/ /\ op[s] = "delete"
        /\ \E i \in P : path' = [path EXCEPT ![s] = i]
        /\ pc' = [pc EXCEPT ![s] = "parse"]
        /\ UNCHANGED json
  /\ UNCHANGED <<records, definitions, op, kind, inbound, reqHdr, span, p_id,
                 tx, err, resp, elog, lastDeleted,
                 defineLog>>

\* The handler's extractors, in the order of its arguments: Path, State,
\* AppJson. A rejected body is the handler's AppError and its body never runs.
Extract(s, P, W) ==
  /\ pc[s] = "extract"
  /\ \/ /\ op[s] = "create"
        /\ \E w \in W :
             /\ json' = [json EXCEPT ![s] = JsonDecode(w)]
             /\ IF JsonDecode(w).ok
                THEN /\ pc' = [pc EXCEPT ![s] = "define"]
                     /\ UNCHANGED <<err, tx>>
                ELSE Fail(s, FromJsonRejection(JsonDecode(w).rejection))
        /\ UNCHANGED path
     \/ /\ op[s] = "list"
        /\ pc' = [pc EXCEPT ![s] = "scan"]
        /\ UNCHANGED <<path, json, err, tx>>
     \/ /\ op[s] = "update"
        /\ \E i \in P, w \in W :
             /\ path' = [path EXCEPT ![s] = i]
             /\ json' = [json EXCEPT ![s] = JsonDecode(w)]
             /\ IF JsonDecode(w).ok
                THEN /\ pc' = [pc EXCEPT ![s] = "parse"]
                     /\ UNCHANGED <<err, tx>>
                ELSE Fail(s, FromJsonRejection(JsonDecode(w).rejection))
     \/ /\ op[s] = "delete"
        /\ \E i \in P : path' = [path EXCEPT ![s] = i]
        /\ pc' = [pc EXCEPT ![s] = "parse"]
        /\ UNCHANGED <<json, err, tx>>
  /\ UNCHANGED <<records, definitions, op, kind, inbound, reqHdr, span, p_id,
                 resp, elog, lastDeleted,
                 defineLog>>

\* Mutant: registering a kind that is registered already is an error.
DefineOnce(s) ==
  /\ pc[s] = "define"
  /\ IF IsDefined(definitions, kind[s])
     THEN /\ Fail(s, FromStructsyError("StructNotDefined"))
          /\ UNCHANGED definitions
     ELSE /\ definitions' = Define(definitions, kind[s])
          /\ pc' = [pc EXCEPT ![s] = "begin"]
          /\ UNCHANGED <<err, tx>>
  /\ defineLog' = [defineLog EXCEPT ![kind[s]] = "this_run"]
  /\ UNCHANGED <<records, op, kind, inbound, reqHdr, span, path, json, p_id,
                 resp, elog, lastDeleted>>

\* drink_coffee / drink_beer: state.connection.define::<T>()?
DefineStep(s) ==
  /\ pc[s] = "define"
  /\ definitions' = Define(definitions, kind[s])
  /\ defineLog' = [defineLog EXCEPT ![kind[s]] = "this_run"]
  /\ pc' = [pc EXCEPT ![s] = "begin"]
  /\ UNCHANGED <<records, op, kind, inbound, reqHdr, span, path, json, p_id,
                 tx, err, resp, elog, lastDeleted>>

\* Mutant: the beer handlers parse a Ref<Coffee>, as a handler copied from
\* the coffee ones would.
RefTypeCoffee(k) == "Coffee"

\* The T of the handler's structsy::Ref<T>: update_coffee and delete_coffee
\* parse a Ref<Coffee>, update_beer and delete_beer a Ref<Beer>.
RefType(k) == k

\* Mutant: the handlers take the struct name from the identifier string
\* instead of parsing a Ref of their own struct.
ParseTrustingTag(s) ==
  /\ pc[s] = "parse"
  /\ LET name == SplitFirst(path[s])
         r == IF Len(name) = 1 /\ name[1] \in Kinds
              THEN RefFromStr(name[1], path[s])
              ELSE [ok |-> FALSE, err |-> "InvalidId"]
     IN IF r.ok
        THEN /\ p_id' = [p_id EXCEPT ![s] = r.ref]
             /\ pc' = [pc EXCEPT ![s] = "begin"]
             /\ UNCHANGED <<err, tx>>
        ELSE /\ Fail(s, FromStructsyError(r.err))
             /\ UNCHANGED p_id
  /\ UNCHANGED <<records, definitions, op, kind, inbound, reqHdr, span, path,
                 json, resp, elog, lastDeleted,
                 defineLog>>

\* update_* / delete_*: let p_id: structsy::Ref<T> = id.parse()?
Parse(s) ==
  /\ pc[s] = "parse"
  /\ LET r == RefFromStr(RefType(kind[s]), path[s]) IN
       IF r.ok
       THEN /\ p_id' = [p_id EXCEPT ![s] = r.ref]
            /\ pc' = [pc EXCEPT ![s] = "begin"]
            /\ UNCHANGED <<err, tx>>
       ELSE /\ Fail(s, FromStructsyError(r.err))
            /\ UNCHANGED p_id
  /\ UNCHANGED <<records, definitions, op, kind, inbound, reqHdr, span, path,
                 json, resp, elog, lastDeleted,
                 defineLog>>

\* let mut tx = state.connection.begin()?
Begin(s) ==
  /\ pc[s] = "begin"
  /\ tx' = [tx EXCEPT ![s] = BeginTx]
  /\ pc' = [pc EXCEPT ![s] = "mutate"]
  /\ UNCHANGED <<records, definitions, op, kind, inbound, reqHdr, span, path,
                 json, p_id, err, resp, elog, lastDeleted,
                 defineLog>>

\* Mutant: the insert is written to the store at once, outside the
\* transaction's commit.
InsertAutoCommit(s) ==
  /\ pc[s] = "mutate" /\ op[s] = "create"
  /\ \E raw \in FreeIds(records, tx) :
       /\ tx' = [tx EXCEPT ![s] = TxInsert(Ref(kind[s], raw), json[s].value)]
       /\ records' = [records EXCEPT ![raw] = [kind |-> kind[s], rec |-> json[s].value]]
  /\ pc' = [pc EXCEPT ![s] = "commit"]
  /\ UNCHANGED <<definitions, op, kind, inbound, reqHdr, span, path, json,
                 p_id, err, resp, elog, lastDeleted,
                 defineLog>>

\* Mutant: the insert is given an identifier without regard to the records
\* that are live or being inserted.
InsertAnyId(s) ==
  /\ pc[s] = "mutate" /\ op[s] = "create"
  /\ \E raw \in RawIds :
       tx' = [tx EXCEPT ![s] = TxInsert(Ref(kind[s], raw), json[s].value)]
  /\ pc' = [pc EXCEPT ![s] = "commit"]
  /\ UNCHANGED <<records, definitions, op, kind, inbound, reqHdr, span, path,
                 json, p_id, err, resp, elog, lastDeleted,
                 defineLog>>

\* drink_*: tx.insert(&item)? -- the store picks the identifier.
Insert(s) ==
  /\ pc[s] = "mutate" /\ op[s] = "create"
  /\ \E raw \in FreeIds(records, tx) :
       tx' = [tx EXCEPT ![s] = TxInsert(Ref(kind[s], raw), json[s].value)]
  /\ pc' = [pc EXCEPT ![s] = "commit"]
  /\ UNCHANGED <<records, definitions, op, kind, inbound, reqHdr, span, path,
                 json, p_id, err, resp, elog, lastDeleted,
                 defineLog>>

\* Mutant: the update handler inserts the record instead of replacing the
\* one under p_id.
UpdateAsInsert(s) ==
  /\ pc[s] = "mutate" /\ op[s] = "update"
  /\ \E raw \in FreeIds(records, tx) :
       tx' = [tx EXCEPT ![s] = TxInsert(Ref(kind[s], raw), json[s].value)]
  /\ pc' = [pc EXCEPT ![s] = "commit"]
  /\ UNCHANGED <<records, definitions, op, kind, inbound, reqHdr, span, path,
                 json, p_id, err, resp, elog, lastDeleted,
                 defineLog>>

\* Mutant: an update is refused while another request holds an uncommitted
\* operation on the same record.
UpdateExclusive(s) ==
  /\ pc[s] = "mutate" /\ op[s] = "update"
  /\ IF ~IsDefined(definitions, p_id[s].type_name)
     THEN Fail(s, FromStructsyError("StructNotDefined"))
     ELSE IF \/ ~Exists(records, p_id[s])
             \/ \E q \in Reqs \ {s} : tx[q].state = "pending" /\ tx[q].ref = p_id[s]
     THEN Fail(s, FromStructsyError("RecordNotFound"))
     ELSE /\ tx' = [tx EXCEPT ![s] = TxUpdate(p_id[s], json[s].value)]
          /\ pc' = [pc EXCEPT ![s] = "commit"]
          /\ UNCHANGED err
  /\ UNCHANGED <<records, definitions, op, kind, inbound, reqHdr, span, path,
                 json, p_id, resp, elog, lastDeleted,
                 defineLog>>

\* update_*: tx.update(&p_id, &item)?
Update(s) ==
  /\ pc[s] = "mutate" /\ op[s] = "update"
  /\ IF ~IsDefined(definitions, p_id[s].type_name)
     THEN Fail(s, FromStructsyError("StructNotDefined"))
     ELSE IF ~Exists(records, p_id[s])
     THEN Fail(s, FromStructsyError("RecordNotFound"))
     ELSE /\ tx' = [tx EXCEPT ![s] = TxUpdate(p_id[s], json[s].value)]
          /\ pc' = [pc EXCEPT ![s] = "commit"]
          /\ UNCHANGED err
  /\ UNCHANGED <<records, definitions, op, kind, inbound, reqHdr, span, path,
                 json, p_id, resp, elog, lastDeleted,
                 defineLog>>

\* Mutant: the delete handler drops the result of tx.delete instead of
\* returning its error.
DeleteIgnoringError(s) ==
  /\ pc[s] = "mutate" /\ op[s] = "delete"
  /\ tx' = [tx EXCEPT ![s] =
              IF IsDefined(definitions, p_id[s].type_name) /\ Exists(records, p_id[s])
              THEN TxDelete(p_id[s]) ELSE tx[s]]
  /\ pc' = [pc EXCEPT ![s] = "commit"]
  /\ UNCHANGED <<records, definitions, op, kind, inbound, reqHdr, span, path,
                 json, p_id, err, resp, elog, lastDeleted,
                 defineLog>>

\* delete_*: tx.delete(&p_id)?
Delete(s) ==
  /\ pc[s] = "mutate" /\ op[s] = "delete"
  /\ IF ~IsDefined(definitions, p_id[s].type_name)
     THEN Fail(s, FromStructsyError("StructNotDefined"))
     ELSE IF ~Exists(records, p_id[s])
     THEN Fail(s, FromStructsyError("RecordNotFound"))
     ELSE /\ tx' = [tx EXCEPT ![s] = TxDelete(p_id[s])]
          /\ pc' = [pc EXCEPT ![s] = "commit"]
          /\ UNCHANGED err
  /\ UNCHANGED <<records, definitions, op, kind, inbound, reqHdr, span, path,
                 json, p_id, resp, elog, lastDeleted,
                 defineLog>>

\* Mutant: the handler returns Ok(()) without tx.commit().
CommitForgotten(s) ==
  /\ pc[s] = "commit"
  /\ tx' = [tx EXCEPT ![s] = NoTx]
  /\ resp' = [resp EXCEPT ![s] = [status |-> 200, body |-> <<>>, hdr |-> NoHeader]]
  /\ pc' = [pc EXCEPT ![s] = "on_response"]
  /\ UNCHANGED <<records, definitions, op, kind, inbound, reqHdr, span, path,
                 json, p_id, err, elog, lastDeleted,
                 defineLog>>

\* Mutant: the connection keeps one transaction that the handlers share;
\* a commit ends it for every request that was using it.
CommitShared(s) ==
  /\ pc[s] = "commit"
  /\ records' = IF CanCommit(records, tx[s]) THEN Committed(records, tx[s]) ELSE records
  /\ tx' = [q \in Reqs |-> NoTx]
  /\ resp' = [resp EXCEPT ![s] = [status |-> 200, body |-> <<>>, hdr |-> NoHeader]]
  /\ pc' = [pc EXCEPT ![s] = "on_response"]
  /\ UNCHANGED <<definitions, op, kind, inbound, reqHdr, span, path, json,
                 p_id, err, elog, lastDeleted,
                 defineLog>>

\* tx.commit()?; Ok(()) -- the empty 200 response.
Commit(s) ==
  /\ pc[s] = "commit"
  /\ IF CanCommit(records, tx[s])
     THEN /\ records' = Committed(records, tx[s])
          /\ lastDeleted' = IF tx[s].state = "pending" /\ tx[s].op = "delete"
                            THEN RefToString(tx[s].ref)
                            ELSE lastDeleted
          /\ tx' = [tx EXCEPT ![s] = NoTx]
          /\ resp' = [resp EXCEPT ![s] = [status |-> 200, body |-> <<>>, hdr |-> NoHeader]]
          /\ pc' = [pc EXCEPT ![s] = "on_response"]
          /\ UNCHANGED err
     ELSE /\ Fail(s, FromStructsyError("RecordNotFound"))
          /\ UNCHANGED <<records, resp, lastDeleted>>
  /\ UNCHANGED <<definitions, op, kind, inbound, reqHdr, span, path, json,
                 p_id, elog, defineLog>>

\* The JSON key of CoffeeList / BeerList.
ListKey(k) == IF k = "Coffee" THEN "coffees" ELSE "beers"

\* list_*: one CoffeeItem / BeerItem { id: id.to_string(), item } per
\* scanned pair.
Items(recs, k) == { [id |-> RefToString(e.ref), item |-> e.rec] : e \in Scan(recs, k) }

\* Mutant: the scan is read through a cursor that stops after its first
\* pair.
ListStepFirstOnly(s) ==
  /\ pc[s] = "scan"
  /\ IF IsDefined(definitions, kind[s])
     THEN /\ resp' = [resp EXCEPT ![s] =
                        [status |-> 200,
                         body |-> [key |-> ListKey(kind[s]),
                                   items |-> IF Items(records, kind[s]) = {} THEN {}
                                             ELSE {CHOOSE e \in Items(records, kind[s]) : TRUE}],
                         hdr |-> NoHeader]]
          /\ pc' = [pc EXCEPT ![s] = "on_response"]
          /\ UNCHANGED <<err, tx>>
     ELSE /\ Fail(s, FromStructsyError("StructNotDefined"))
          /\ UNCHANGED resp
  /\ UNCHANGED <<records, definitions, op, kind, inbound, reqHdr, span, path,
                 json, p_id, elog, lastDeleted,
                 defineLog>>

\* Mutant: the list handlers register their struct before they scan, as the
\* create handlers do.
ListStepDefining(s) ==
  /\ pc[s] = "scan"
  /\ definitions' = Define(definitions, kind[s])
  /\ defineLog' = [defineLog EXCEPT ![kind[s]] = "this_run"]
  /\ resp' = [resp EXCEPT ![s] =
                [status |-> 200,
                 body |-> [key |-> ListKey(kind[s]), items |-> Items(records, kind[s])],
                 hdr |-> NoHeader]]
  /\ pc' = [pc EXCEPT ![s] = "on_response"]
  /\ UNCHANGED <<records, op, kind, inbound, reqHdr, span, path, json, p_id,
                 tx, err, elog, lastDeleted>>

\* list_*: scan::<T>()? and the response built from it.
ListStep(s) ==
  /\ pc[s] = "scan"
  /\ IF IsDefined(definitions, kind[s])
     THEN /\ resp' = [resp EXCEPT ![s] =
                        [status |-> 200,
                         body |-> [key |-> ListKey(kind[s]), items |-> Items(records, kind[s])],
                         hdr |-> NoHeader]]
          /\ pc' = [pc EXCEPT ![s] = "on_response"]
          /\ UNCHANGED <<err, tx>>
     ELSE /\ Fail(s, FromStructsyError("StructNotDefined"))
          /\ UNCHANGED resp
  /\ UNCHANGED <<records, definitions, op, kind, inbound, reqHdr, span, path,
                 json, p_id, elog, lastDeleted,
                 defineLog>>

\* Any store call of a handler can fail in the store; the ? returns the
\* error and the transaction is dropped uncommitted. A define of a kind that
\* is registered already finds it in the connection's table of definitions
\* and writes nothing.
StoreFault(s) ==
  /\ pc[s] \in {"define", "begin", "mutate", "commit", "scan"}
  /\ pc[s] = "define" => ~IsDefined(definitions, kind[s])
  /\ Fail(s, FromStructsyError("PersyError"))
  /\ UNCHANGED <<records, definitions, op, kind, inbound, reqHdr, span, path,
                 json, p_id, resp, elog, lastDeleted,
                 defineLog>>

\* Mutant: every AppError is answered as an internal error.
IntoResponseAllInternal(s) ==
  /\ pc[s] = "into_response"
  /\ elog' = [elog EXCEPT ![s] = Append(elog[s], ErrorLogLine(err[s]))]
  /\ resp' = [resp EXCEPT ![s] =
                [status |-> INTERNAL_SERVER_ERROR,
                 body |-> [message |-> StatusAndMessage(err[s]).message],
                 hdr |-> NoHeader]]
  /\ pc' = [pc EXCEPT ![s] = "on_response"]
  /\ UNCHANGED <<records, definitions, op, kind, inbound, reqHdr, span, path,
                 json, p_id, tx, err, lastDeleted,
                 defineLog>>

\* impl IntoResponse for AppError: one error event, one response.
IntoResponse(s) ==
  /\ pc[s] = "into_response"
  /\ elog' = [elog EXCEPT ![s] = Append(elog[s], ErrorLogLine(err[s]))]
  /\ resp' = [resp EXCEPT ![s] =
                [status |-> StatusAndMessage(err[s]).status,
                 body |-> [message |-> StatusAndMessage(err[s]).message],
                 hdr |-> NoHeader]]
  /\ pc' = [pc EXCEPT ![s] = "on_response"]
  /\ UNCHANGED <<records, definitions, op, kind, inbound, reqHdr, span, path,
                 json, p_id, tx, err, lastDeleted,
                 defineLog>>

\* The handler has returned (its arguments and locals are gone); TraceLayer
\* sees the response inside the span and hands it on with the span kept in
\* the response body.
OnResponse(s) ==
  /\ pc[s] = "on_response"
  /\ path' = [path EXCEPT ![s] = <<>>]
  /\ json' = [json EXCEPT ![s] = NoJson]
  /\ p_id' = [p_id EXCEPT ![s] = NoRef]
  /\ err' = [err EXCEPT ![s] = NoErr]
  /\ pc' = [pc EXCEPT ![s] = "propagate"]
  /\ UNCHANGED <<records, definitions, op, kind, inbound, reqHdr, span, tx,
                 resp, elog, lastDeleted,
                 defineLog>>

\* Mutant: the header is copied onto successful responses only.
PropagateOnSuccess(s) ==
  /\ pc[s] = "propagate"
  /\ resp' = [resp EXCEPT ![s].hdr =
                IF resp[s].hdr.present \/ resp[s].status # 200
                THEN resp[s].hdr ELSE reqHdr[s]]
  /\ pc' = [pc EXCEPT ![s] = "send"]
  /\ UNCHANGED <<records, definitions, op, kind, inbound, reqHdr, span, path,
                 json, p_id, tx, err, elog, lastDeleted,
                 defineLog>>

\* PropagateRequestIdLayer: a response without the header is given the
\* request's.
Propagate(s) ==
  /\ pc[s] = "propagate"
  /\ resp' = [resp EXCEPT ![s].hdr =
                IF resp[s].hdr.present THEN resp[s].hdr ELSE reqHdr[s]]
  /\ pc' = [pc EXCEPT ![s] = "send"]
  /\ UNCHANGED <<records, definitions, op, kind, inbound, reqHdr, span, path,
                 json, p_id, tx, err, elog, lastDeleted,
                 defineLog>>

\* The response has been written out; the request and the response are
\* dropped, and with the response body the span TraceLayer kept in it: the
\* span is closed.
BodySent(s) ==
  /\ pc[s] = "send"
  /\ span' = [span EXCEPT ![s].open = FALSE]
  /\ op' = [op EXCEPT ![s] = None]
  /\ kind' = [kind EXCEPT ![s] = None]
  /\ inbound' = [inbound EXCEPT ![s] = NoHeader]
  /\ reqHdr' = [reqHdr EXCEPT ![s] = NoHeader]
  /\ resp' = [resp EXCEPT ![s] = NoResp]
  /\ elog' = [elog EXCEPT ![s] = <<>>]
  /\ pc' = [pc EXCEPT ![s] = "done"]
  /\ UNCHANGED <<records, definitions, path, json, p_id, tx, err, lastDeleted,
                 defineLog>>

\* The steps that serve request s once it has arrived, on the routes that
\* write to the store.
ServeWrite(s, U, P, W) ==
  \/ SetRequestId(s, U)
  \/ MakeSpan(s)
  \/ Extract(s, P, W)
  \/ DefineStep(s)
  \/ Parse(s)
  \/ Begin(s)
  \/ Insert(s)
  \/ Update(s)
  \/ Delete(s)
  \/ Commit(s)
  \/ StoreFault(s)
  \/ IntoResponse(s)
  \/ OnResponse(s)
  \/ Propagate(s)
  \/ BodySent(s)

\* The steps that serve request s once it has arrived, on every route.
Serve(s, U, P, W) ==
  \/ ServeWrite(s, U, P, W)
  \/ ListStep(s)

\* One step of request s: one of the routes O under one of the prefixes K,
\* with an x-request-id from H, a generated identifier from U, an :id
\* segment from P and a body from W.
Step(s, O, K, H, U, P, W) ==
  \/ Receive(s, O, K, H)
  \/ Serve(s, U, P, W)

\* One request at a time, on every route, with every path segment and body;
\* no request brings an x-request-id.
Next == Step(1, Ops, Kinds, {NoHeader}, {"uuid-1"}, PathIds, WireBodies)

Spec == Init /\ [][Next]_vars

\* One request at a time on the /coffee routes, with every x-request-id a
\* client can send and every identifier the server can generate.
NextMw ==
  Step(1, Ops, {"Coffee"}, ClientHeaders, Uuids,
       { RefToString(Ref("Coffee", raw)) : raw \in RawIds } \cup Malformed, WireBodies)

SpecMw == Init /\ [][NextMw]_vars

\* The same with the runtime's scheduling: a request that has arrived and
\* can take a step is not left waiting forever (no step of a request waits
\* on another request).
ServeMw ==
  Serve(1, Uuids, { RefToString(Ref("Coffee", raw)) : raw \in RawIds } \cup Malformed,
        WireBodies)

SpecMwFair == SpecMw /\ WF_vars(ServeMw)

\* Requests in flight together on the shared connection: the /coffee routes,
\* with bodies that decode and identifiers that parse.
GoodBodies == { w \in WireBodies : JsonDecode(w).ok }
CoffeeIds == { RefToString(Ref("Coffee", raw)) : raw \in RawIds }

\* Two requests are in flight at a time.
InFlight == {1, 2}

NextConc ==
  \E s \in InFlight :
    Step(s, Ops, {"Coffee"}, {NoHeader}, {"uuid-1"}, CoffeeIds, GoodBodies)

SpecConc == Init /\ [][NextConc]_vars

\* Requests in flight together on the routes that write: create, update
\* and delete under /coffee.
WriteOps == Ops \ {"list"}

NextWr ==
  \E s \in InFlight :
    \/ Receive(s, WriteOps, {"Coffee"}, {NoHeader})
    \/ ServeWrite(s, {"uuid-1"}, CoffeeIds, GoodBodies)

SpecWr == Init /\ [][NextWr]_vars

\* The server started on a ./track.db that an earlier run has left: the
\* structs that run registered and the records it stored are there.
InitReopen ==
  /\ definitions \in SUBSET Kinds
  /\ records \in [RawIds -> {NoRec} \cup
                              { [kind |-> k, rec |-> b] : k \in definitions, b \in Bodies }]
  /\ defineLog = [k \in Kinds |-> IF k \in definitions THEN "earlier_run" ELSE "never"]
  /\ pc = [s \in Reqs |-> "idle"]
  /\ op = [s \in Reqs |-> None]
  /\ kind = [s \in Reqs |-> None]
  /\ inbound = [s \in Reqs |-> NoHeader]
  /\ reqHdr = [s \in Reqs |-> NoHeader]
  /\ span = [s \in Reqs |-> NoSpan]
  /\ path = [s \in Reqs |-> <<>>]
  /\ json = [s \in Reqs |-> NoJson]
  /\ p_id = [s \in Reqs |-> NoRef]
  /\ tx = [s \in Reqs |-> NoTx]
  /\ err = [s \in Reqs |-> NoErr]
  /\ resp = [s \in Reqs |-> NoResp]
  /\ elog = [s \in Reqs |-> <<>>]
  /\ lastDeleted = <<>>

SpecReopen == InitReopen /\ [][Next]_vars

\* The responder on its own: every AppError, handed to into_response.
InitErr ==
  /\ records = [raw \in RawIds |-> NoRec]
  /\ definitions = {}
  /\ pc = [s \in Reqs |-> "into_response"]
  /\ op = [s \in Reqs |-> None]
  /\ kind = [s \in Reqs |-> None]
  /\ inbound = [s \in Reqs |-> NoHeader]
  /\ reqHdr = [s \in Reqs |-> NoHeader]
  /\ span = [s \in Reqs |-> NoSpan]
  /\ path = [s \in Reqs |-> <<>>]
  /\ json = [s \in Reqs |-> NoJson]
  /\ p_id = [s \in Reqs |-> NoRef]
  /\ tx = [s \in Reqs |-> NoTx]
  /\ err \in [Reqs -> AppError]
  /\ resp = [s \in Reqs |-> NoResp]
  /\ elog = [s \in Reqs |-> <<>>]
  /\ lastDeleted = <<>>
  /\ defineLog = [k \in Kinds |-> "never"]

NextErr == \E s \in Reqs : IntoResponse(s)

SpecErr == InitErr /\ [][NextErr]_vars

\* ================================================================ claims
\* The handler of request s returns Ok from its commit in this step.
CommitsOk(s, o) ==
  pc[s] = "commit" /\ op[s] = o /\ pc'[s] = "on_response"

ClientError == 400..499

\* What update_* / delete_* of kind k make of the string i.
Resolve(k, i) == RefFromStr(RefType(k), i)

\* The string i, given to update or delete of kind k, addresses the live
\* record whose listed entry is e.
ResolvesTo(recs, k, i, e) ==
  LET r == Resolve(k, i) IN
    /\ r.ok
    /\ Exists(recs, r.ref)
    /\ recs[r.ref.raw_id].rec = e.item
    /\ RefToString(r.ref) = e.id

\* ------------------------------------------------------------------ C1
\* C1 as stated: after create(r) succeeds, the list of the kind holds
\* exactly one entry whose record equals r.
C1_ExactlyOneEqualRecord ==
  \A s \in Reqs :
    (pc[s] = "on_response" /\ op[s] = "create" /\ resp[s].status = 200)
      => Cardinality({ e \in Items(records, kind[s]) : e.item = json[s].value }) = 1

\* C1 as amended: a create that succeeds adds exactly one entry to the list of
\* its kind, keeping every earlier one; the new entry's record equals r (so
\* the list holds one more entry equal to r than before), and its identifier
\* string, given to update or delete of the kind, resolves to that entry.
C1_CreateAddsOneListedEntry ==
  [][ \A s \in Reqs :
        CommitsOk(s, "create") =>
          LET k == kind[s]
              r == json[s].value
              before == Items(records, k)
              after == Items(records', k)
              equal(S) == { e \in S : e.item = r }
          IN /\ before \subseteq after
             /\ Cardinality(after \ before) = 1
             /\ \A e \in after \ before :
                  /\ e.item = r
                  /\ \A f \in before : f.id # e.id
                  /\ ResolvesTo(records', k, e.id, e)
             /\ Cardinality(equal(after)) = Cardinality(equal(before)) + 1
    ]_vars

\* A create has succeeded for a record of which the list already held an
\* equal one.
C1_Witness ==
  \E s \in Reqs :
    /\ pc[s] = "on_response" /\ op[s] = "create" /\ resp[s].status = 200
    /\ Cardinality({ e \in Items(records, kind[s]) : e.item = json[s].value }) = 2

\* ------------------------------------------------------------------ C2
\* C2: update or delete with a path segment that is no identifier answers
\* with a client-error status (InvalidInput), not with 500.
C2_MalformedIdIsClientError ==
  \A s \in Reqs :
    (pc[s] = "on_response" /\ op[s] \in {"update", "delete"} /\ path[s] \in Malformed)
      => resp[s].status \in ClientError

AfterDelete(s) ==
  /\ pc[s] = "mutate" /\ op[s] \in {"update", "delete"}
  /\ RefToString(p_id[s]) = lastDeleted

\* The mutation call of request s fails with a StructsyError (status 500)
\* and leaves the store as it is.
FailsInStore(s) ==
  /\ pc'[s] = "into_response"
  /\ err'[s].variant = "StructsyError"
  /\ StatusAndMessage(err'[s]).status = INTERNAL_SERVER_ERROR
  /\ UNCHANGED store

\* C4 as stated: once delete(id) has succeeded, every later update or delete
\* with id fails with StoreFailure and leaves the store unchanged.
C4_EveryLaterUseFails ==
  [][ \A s \in Reqs : (AfterDelete(s) /\ pc'[s] # pc[s]) => FailsInStore(s) ]_vars

\* Request s is an update or delete about to make its mutation call with an
\* identifier that addresses no live record (as a deleted identifier does
\* until the store issues it again).
NotLive(s) ==
  /\ pc[s] = "mutate" /\ op[s] \in {"update", "delete"}
  /\ ~Exists(records, p_id[s])

\* C4 as amended: a delete that succeeds leaves no entry listed under id, and
\* a later update or delete with id fails with StoreFailure (500), leaving
\* the store unchanged, for as long as id does not address a live record
\* again, that is until a later create is given the same identifier.
C4_DeletedIdFailsUntilReissued ==
  [][ \A s \in Reqs :
        /\ CommitsOk(s, "delete") =>
             /\ ~Exists(records', p_id[s])
             /\ \A e \in Items(records', kind[s]) : e.id # path[s]
        /\ (NotLive(s) /\ pc'[s] # pc[s]) => FailsInStore(s)
    ]_vars

\* An update or delete with the identifier deleted last has failed with
\* "record not found".
C4_Witness ==
  \E s \in Reqs :
    /\ pc[s] = "into_response" /\ op[s] \in {"update", "delete"}
    /\ path[s] = lastDeleted
    /\ err[s] = FromStructsyError("RecordNotFound")

\* ------------------------------------------------------------------ C5
\* The body of request s, a create or an update, was rejected by AppJson.
BodyRejected(s) ==
  /\ op[s] \in {"create", "update"}
  /\ ~json[s].ok /\ json[s].rejection \in JsonRejections

\* C5: a create or update whose body is rejected answers with the
\* rejection's client-error status and text, never reaches a store call, and
\* no step of it changes the store, whatever the path identifier is.
C5_BadBodyNoStoreCall ==
  /\ [](\A s \in Reqs :
          BodyRejected(s) =>
            /\ pc[s] \in {"into_response", "on_response"}
            /\ err[s] = FromJsonRejection(json[s].rejection)
            /\ tx[s] = NoTx
            /\ pc[s] = "on_response" =>
                 /\ resp[s].status = RejectionStatus(json[s].rejection)
                 /\ resp[s].status \in ClientError
                 /\ resp[s].body = [message |-> RejectionBodyText(json[s].rejection)])
  /\ [][ \A s \in Reqs :
           (BodyRejected(s)' /\ pc'[s] # pc[s]) =>
             (records' = records /\ definitions' = definitions
              /\ Items(records', kind'[s]) = Items(records, kind[s])) ]_vars

\* An update with a rejected body and the identifier of a live record of its
\* kind has been answered.
C5_Witness ==
  \E s \in Reqs :
    /\ pc[s] = "on_response" /\ op[s] = "update" /\ BodyRejected(s)
    /\ Resolve(kind[s], path[s]).ok
    /\ Exists(records, Resolve(kind[s], path[s]).ref)

\* ------------------------------------------------------------------ C6
\* The records differ from recs exactly by t, applied whole.
AppliedWhole(recs, t, after) ==
  /\ \A raw \in RawIds \ {t.ref.raw_id} : after[raw] = recs[raw]
  /\ CASE t.op = "insert" ->
            recs[t.ref.raw_id] = NoRec
            /\ after[t.ref.raw_id] = [kind |-> t.ref.type_name, rec |-> t.rec]
       [] t.op = "update" ->
            Exists(recs, t.ref)
            /\ after[t.ref.raw_id] = [kind |-> t.ref.type_name, rec |-> t.rec]
       [] t.op = "delete" ->
            Exists(recs, t.ref) /\ after[t.ref.raw_id] = NoRec

\* C6: no partial application. A step either leaves the stored records as
\* they are, or is the commit of one request, which answers Ok and applies
\* that request's one operation whole; a request that fails at define,
\* begin, the mutation call or commit changes no record.
C6_NoPartialApplication ==
  [][ /\ \/ records' = records
         \/ \E s \in Reqs :
              /\ tx[s].state = "pending"
              /\ CommitsOk(s, IF tx[s].op = "insert" THEN "create" ELSE tx[s].op)
              /\ resp'[s].status = 200
              /\ AppliedWhole(records, tx[s], records')
      /\ \A s \in Reqs :
           (pc[s] \in {"define", "begin", "mutate", "commit"} /\ pc'[s] = "into_response")
             => (records' = records /\ tx'[s] = NoTx)
    ]_vars

\* An update failed in the store at its commit, and the record under its
\* identifier is still the old one.
C6_Witness ==
  \E s \in Reqs :
    /\ pc[s] = "into_response" /\ op[s] = "update"
    /\ err[s] = FromStructsyError("PersyError")
    /\ Exists(records, p_id[s])
    /\ records[p_id[s].raw_id].rec # json[s].value

\* ------------------------------------------------------------------ C7
\* C7: every response that leaves carries x-request-id: the inbound value
\* when the request had one, a generated one otherwise.
C7_ResponseCarriesRequestId ==
  \A s \in Reqs :
    pc[s] = "send" =>
      /\ resp[s].hdr.present
      /\ inbound[s].present => resp[s].hdr = inbound[s]
      /\ ~inbound[s].present => (resp[s].hdr.text \in Uuids /\ resp[s].hdr.ascii)

\* An error response has left with the x-request-id the client sent.
C7_Witness ==
  \E s \in Reqs :
    /\ pc[s] = "send" /\ resp[s].status = INTERNAL_SERVER_ERROR
    /\ inbound[s].present /\ resp[s].hdr = inbound[s]

C9_FixedGenericMessage ==
  \A s \in Reqs :
    (pc[s] = "on_response" /\ err[s].variant = "IOError") =>
      /\ resp[s].status = INTERNAL_SERVER_ERROR
      /\ resp[s].body.message = "something went wrong, try again later"

\* ----------------------------------------------------------------- C10
\* C10: for every live record, parsing the string the list gives for its
\* identifier yields the identifier again, and that string, given to update
\* or delete of the kind, addresses that record.
C10_IdRoundTrip ==
  \A k \in Kinds :
    /\ \A e \in Scan(records, k) :
         RefFromStr(k, RefToString(e.ref)) = [ok |-> TRUE, ref |-> e.ref]
    /\ \A e \in Items(records, k) : ResolvesTo(records, k, e.id, e)

\* A delete given the string listed for a record has removed that record.
C10_Witness ==
  \E s \in Reqs :
    /\ pc[s] = "on_response" /\ op[s] = "delete" /\ resp[s].status = 200
    /\ path[s] = lastDeleted
    /\ \E k \in Kinds : Items(records, k) # {}

\* ----------------------------------------------------------------- C11
\* The positions of a request inside its handler, extractors included.
HandlerPcs ==
  {"extract", "define", "parse", "scan", "begin", "mutate", "commit", "into_response"}

\* The positions of a request whose handler has completed.
AfterHandlerPcs == {"on_response", "propagate", "send"}

\* The order of the layers in every state of request s.
LayerOrder(s) ==
  /\ span[s].open => reqHdr[s].present
  /\ pc[s] \in HandlerPcs => (reqHdr[s].present /\ span[s].open)
  /\ resp[s].hdr.present => pc[s] = "send"
  /\ pc[s] \in AfterHandlerPcs => (resp[s].status # 0 /\ span[s].open)
  /\ pc[s] = "send" => (resp[s].hdr.present /\ resp[s].hdr = reqHdr[s])
  /\ pc[s] = "done" => (span[s].opened /\ ~span[s].open)

\* C11: for every request the identifier is resolved before the span is
\* opened and before the handler is dispatched, the response header is
\* written only after the handler has completed, and every request that has
\* arrived comes to the point where its response leaves with the header and
\* then to the point where its span is closed, whether its handler returned
\* Ok or an error.
C11_LayerOrderOnEveryExit ==
  /\ [](\A s \in Reqs : LayerOrder(s))
  /\ \A s \in Reqs :
       /\ (pc[s] = "set_request_id") ~> (pc[s] = "send" /\ resp[s].hdr.present)
       /\ (pc[s] = "send") ~> (pc[s] = "done" /\ ~span[s].open)

\* The response of a request whose handler failed is leaving with the
\* header, inside the span that closes next.
C11_Witness ==
  \E s \in Reqs :
    /\ pc[s] = "send" /\ resp[s].status = INTERNAL_SERVER_ERROR
    /\ resp[s].hdr = reqHdr[s] /\ reqHdr[s].present
    /\ span[s].open

\* ----------------------------------------------------------------- C12
\* The identifier the claim resolves for request s: the inbound value when
\* the header is there and well-formed (a string), a generated one otherwise.
ResolvedAsClaimed(s, id) ==
  IF inbound[s].present /\ inbound[s].ascii THEN id = inbound[s].text ELSE id \in Uuids

\* C12: the identifier resolved for a request is the inbound x-request-id
\* when that is present and well-formed and a generated one otherwise, and
\* that one identifier is the request_id of the request's span and the value
\* of the response header: the two never differ and no span is left
\* without a request_id.
C12_OneIdentifierInSpanAndHeader ==
  \A s \in Reqs :
    /\ span[s].open =>
         /\ span[s].request_id # None
         /\ span[s].request_id = reqHdr[s].text
         /\ ResolvedAsClaimed(s, span[s].request_id)
    /\ pc[s] = "send" =>
         /\ resp[s].hdr.text = span[s].request_id
         /\ ResolvedAsClaimed(s, resp[s].hdr.text)

\* ----------------------------------------------------------------- C13
\* The transaction of request s at each position of its handler: none before
\* begin and after commit, an empty one between begin and the mutation call,
\* one holding that single operation between the mutation call and commit.
TxScope(s) ==
  /\ pc[s] = "mutate" => tx[s] = BeginTx
  /\ pc[s] = "commit" =>
       /\ tx[s].state = "pending"
       /\ tx[s].op = (IF op[s] = "create" THEN "insert" ELSE op[s])
  /\ pc[s] \notin {"mutate", "commit"} => tx[s] = NoTx

\* C13: under every interleaving, a request's transaction is opened by its
\* own begin and is changed by no step of another request; it is given one
\* operation and never a second; and the records change only when a request
\* commits its own transaction, by that transaction's one operation.
C13_OwnTransactionOneMutation ==
  /\ [](\A s \in Reqs : TxScope(s))
  /\ [][ /\ \A s \in Reqs :
            /\ pc'[s] = pc[s] => tx'[s] = tx[s]
            /\ tx[s].state = "pending" => tx'[s] \in {tx[s], NoTx}
            /\ (tx[s] = NoTx /\ tx'[s] # NoTx) => (pc[s] = "begin" /\ tx'[s] = BeginTx)
         /\ records' # records =>
              \E s \in Reqs :
                /\ pc[s] = "commit" /\ pc'[s] = "on_response"
                /\ tx[s].state = "pending"
                /\ records' = Committed(records, tx[s])
     ]_vars

\* Two requests each hold a transaction of their own with its one operation,
\* both waiting to commit.
C13_Witness ==
  \E s, q \in Reqs :
    /\ s # q
    /\ pc[s] = "commit" /\ tx[s].state = "pending" /\ tx[s].op = "update"
    /\ pc[q] = "commit" /\ tx[q].state = "pending" /\ tx[q].op = "delete"

\* ----------------------------------------------------------------- C14
\* Request s is an update at its mutation call or its commit, and the record
\* its identifier addresses is live.
UpdatingLive(s) ==
  /\ op[s] = "update" /\ pc[s] \in {"mutate", "commit"}
  /\ IsDefined(definitions, p_id[s].type_name)
  /\ Exists(records, p_id[s])

\* C14: an update of a live record is never refused because another update
\* of the same record is under way or has committed meanwhile: its mutation
\* call and its commit go through unless the store itself fails, and its
\* commit leaves under the identifier exactly its own record, whole, with
\* every other record as it was; so the record stored in the end is that of
\* the update that committed last.
C14_LastCommitWins ==
  [][ \A s \in Reqs :
        (UpdatingLive(s) /\ pc'[s] # pc[s]) =>
          \/ pc'[s] = "into_response" /\ err'[s] = FromStructsyError("PersyError")
          \/ pc[s] = "mutate" /\ pc'[s] = "commit" /\ records' = records
          \/ /\ pc[s] = "commit" /\ pc'[s] = "on_response" /\ resp'[s].status = 200
             /\ records' = [records EXCEPT ![p_id[s].raw_id].rec = json[s].value]
    ]_vars

\* Two updates of one record with different records were in flight together
\* and both have returned Ok; the record stored is one of the two, whole.
C14_Witness ==
  \E s, q \in Reqs :
    /\ s # q
    /\ pc[s] = "on_response" /\ op[s] = "update" /\ resp[s].status = 200
    /\ pc[q] = "on_response" /\ op[q] = "update" /\ resp[q].status = 200
    /\ p_id[s] = p_id[q] /\ json[s].value # json[q].value
    /\ records[p_id[s].raw_id].rec = json[s].value

\* ----------------------------------------------------------------- C15
\* The raw identifiers of the records of kind k.
Stored(recs, k) == { raw \in RawIds : recs[raw] # NoRec /\ recs[raw].kind = k }

\* C15: a list leaves the records, the registered kinds and every
\* transaction as they are and keeps nothing for a later call, and a list
\* that is answered returns, as a function of the records stored at the time
\* of the call alone, exactly one entry per record of its kind (so two lists
\* with no commit between them return the same entries).
C15_ListIsFreshReadOnlyScan ==
  [][ \A s \in Reqs :
        (pc[s] = "scan" /\ pc'[s] # pc[s]) =>
          /\ records' = records /\ definitions' = definitions /\ tx' = tx
          /\ lastDeleted' = lastDeleted
          /\ \A q \in Reqs \ {s} : resp'[q] = resp[q] /\ pc'[q] = pc[q]
          /\ pc'[s] = "on_response" =>
               LET k == kind[s]
                   items == resp'[s].body.items
               IN /\ resp'[s].status = 200
                  /\ resp'[s].body.key = ListKey(k)
                  /\ items = Items(records, k)
                  /\ Cardinality(items) = Cardinality(Stored(records, k))
                  /\ \A raw \in Stored(records, k) :
                       Cardinality({ e \in items : e.id = RefToString(Ref(k, raw)) }) = 1
                  /\ \A e \in items :
                       \E raw \in Stored(records, k) :
                         e = [id |-> RefToString(Ref(k, raw)), item |-> records[raw].rec]
    ]_vars

\* A list has been answered with two entries, one for each of the two
\* records stored.
C15_Witness ==
  \E s \in Reqs :
    /\ pc[s] = "on_response" /\ op[s] = "list" /\ resp[s].status = 200
    /\ Cardinality(resp[s].body.items) = 2
    /\ resp[s].body.items = Items(records, kind[s])

\* ----------------------------------------------------------------- C16
\* C16: once a kind is registered, the define of every later create of the
\* kind succeeds and goes on to begin, leaving the registered kinds and all
\* records as they are; a first define adds just its kind; and no step takes
\* a kind out of the registered ones.
C16_DefineIdempotent ==
  [][ /\ definitions \subseteq definitions'
      /\ \A s \in Reqs :
           (pc[s] = "define" /\ pc'[s] # pc[s]) =>
             /\ op[s] = "create" /\ records' = records
             /\ IsDefined(definitions, kind[s]) =>
                  /\ pc'[s] = "begin" /\ err'[s] = NoErr
                  /\ definitions' = definitions
             /\ pc'[s] = "begin" => definitions' = definitions \cup {kind[s]}
    ]_vars

\* A create of a kind that has a record stored already, and so was
\* registered by an earlier create, has passed its define.
C16_Witness ==
  \E s \in Reqs :
    /\ pc[s] = "begin" /\ op[s] = "create"
    /\ Stored(records, kind[s]) # {}
    /\ definitions = Kinds

\* ----------------------------------------------------------------- C17
\* The identifier strings of all live records, of every kind.
LiveIds(recs) == UNION { { e.id : e \in Items(recs, k) } : k \in Kinds }

\* C17: a create that succeeds adds one entry to its kind, under an
\* identifier that no record live at that moment has, and leaves every other
\* entry of every kind as it was; the identifiers of live records are
\* pairwise distinct, also when the records are equal.
C17_CreateAddsOneDistinctId ==
  /\ [](\A k1, k2 \in Kinds :
          \A e1 \in Items(records, k1), e2 \in Items(records, k2) :
            e1.id = e2.id => (k1 = k2 /\ e1 = e2))
  /\ [](\A k \in Kinds : Cardinality(Items(records, k)) = Cardinality(Stored(records, k)))
  /\ [][ \A s \in Reqs :
           CommitsOk(s, "create") =>
             LET new == [id |-> RefToString(tx[s].ref), item |-> json[s].value] IN
               /\ new.id \notin LiveIds(records)
               /\ Items(records', kind[s]) = Items(records, kind[s]) \cup {new}
               /\ Cardinality(Items(records', kind[s]))
                    = Cardinality(Items(records, kind[s])) + 1
               /\ \A k \in Kinds \ {kind[s]} : Items(records', k) = Items(records, k)
     ]_vars

\* Two creates of equal records, in flight together, have both returned Ok
\* and the list holds two entries with that record.
C17_Witness ==
  \E s, q \in Reqs :
    /\ s # q
    /\ pc[s] = "on_response" /\ op[s] = "create" /\ resp[s].status = 200
    /\ pc[q] = "on_response" /\ op[q] = "create" /\ resp[q].status = 200
    /\ json[s].value = json[q].value
    /\ Cardinality({ e \in Items(records, kind[s]) : e.item = json[s].value }) = 2

\* ----------------------------------------------------------------- C18
\* The records of kind k, by raw identifier.
RecordsOf(recs, k) == [raw \in Stored(recs, k) |-> recs[raw]]

\* The string i is the identifier of a live record of a kind other than k.
IssuedForOtherKind(k, i) ==
  \E k2 \in Kinds \ {k} : \E e \in Items(records, k2) : e.id = i

\* C18: the records of a kind are changed only by a request on that kind's
\* routes; an update or delete given the identifier string of a live record
\* of the other kind fails at its parse, before any store call, and no
\* record of either kind changes; a handler that gets past its parse holds a
\* Ref of its own kind; and a list returns only entries of its own kind.
C18_KindsIsolated ==
  /\ [](\A s \in Reqs :
          /\ (op[s] \in {"update", "delete"} /\ pc[s] \in {"begin", "mutate", "commit"})
               => p_id[s].type_name = kind[s]
          /\ tx[s].state = "pending" => tx[s].ref.type_name = kind[s]
          /\ (op[s] = "list" /\ pc[s] = "on_response" /\ resp[s].status = 200) =>
               \A e \in resp[s].body.items :
                 /\ e.id[1] = kind[s]
                 /\ \A k2 \in Kinds \ {kind[s]} : e \notin Items(records, k2))
  /\ [][ \A s \in Reqs :
           pc'[s] # pc[s] =>
             /\ \A k \in Kinds \ {kind[s]} : RecordsOf(records', k) = RecordsOf(records, k)
             /\ (pc[s] = "parse" /\ IssuedForOtherKind(kind[s], path[s])) =>
                  /\ pc'[s] = "into_response"
                  /\ err'[s] = FromStructsyError("InvalidId")
                  /\ records' = records
     ]_vars

\* A delete on the /beer routes was given the identifier of a live Coffee
\* record and has failed; the Coffee record is still there.
C18_Witness ==
  \E s \in Reqs :
    /\ pc[s] = "into_response" /\ op[s] = "delete" /\ kind[s] = "Beer"
    /\ err[s] = FromStructsyError("InvalidId")
    /\ \E e \in Items(records, "Coffee") : e.id = path[s]
    /\ IsDefined(definitions, "Beer")

\* ----------------------------------------------------------------- C19
\* Request s is a list, update or delete at its first store call that needs
\* the struct registered.
ReachesStore(s) ==
  op[s] \in {"list", "update", "delete"} /\ pc[s] \in {"scan", "mutate"}

\* C19 as stated: a list, update or delete of a kind that no create of this
\* run has registered reaches the store with the kind unregistered.
C19_UnregisteredUntilCreateInRun ==
  \A s \in Reqs :
    (ReachesStore(s) /\ defineLog[kind[s]] # "this_run")
      => ~IsDefined(definitions, kind[s])

\* C19 as amended: only the define of a create registers a kind, and list,
\* update and delete leave the registered kinds as they are; a kind is
\* registered exactly when a create of it has called define in this run or
\* in an earlier run on the same store file, so a list, update or delete of
\* a kind no create has ever registered reaches the store with the kind
\* unregistered, and a list in that state is answered with the store's
\* error, not with an empty list.
C19_RegisteredOnlyByCreate ==
  /\ [](\A s \in Reqs : pc[s] = "define" => op[s] = "create")
  /\ [](\A k \in Kinds : IsDefined(definitions, k) <=> defineLog[k] # "never")
  /\ [](\A s \in Reqs :
          (ReachesStore(s) /\ defineLog[kind[s]] = "never")
            => ~IsDefined(definitions, kind[s]))
  /\ [][ /\ definitions' # definitions =>
              \E s \in Reqs :
                /\ pc[s] = "define" /\ op[s] = "create" /\ pc'[s] = "begin"
                /\ definitions' = definitions \cup {kind[s]}
         /\ \A s \in Reqs :
              (op[s] \in {"list", "update", "delete"} /\ pc'[s] # pc[s]) =>
                /\ definitions' = definitions
                /\ (pc[s] = "scan" /\ ~IsDefined(definitions, kind[s])) =>
                     /\ pc'[s] = "into_response"
                     /\ err'[s] \in { FromStructsyError("StructNotDefined"),
                                      FromStructsyError("PersyError") }
     ]_vars

\* A list of a kind no create has ever registered has been refused by the
\* store, in a run on a store file where the other kind was registered by an
\* earlier run.
C19_Witness ==
  \E s \in Reqs :
    /\ pc[s] = "into_response" /\ op[s] = "list"
    /\ err[s] = FromStructsyError("StructNotDefined")
    /\ defineLog[kind[s]] = "never"
    /\ \E k \in Kinds : defineLog[k] = "earlier_run"

====
